---- MODULE Spec2Model ----
(***************************************************************************)
(* Model of offlineDependencies.py: download_libs() creates the directory  *)
(* libs/, then walks the LIBRARIES mapping in definition order, skips the  *)
(* entries whose file exists and otherwise issues one blocking HTTP GET    *)
(* and writes the body of a 200 response to libs/<name>.                   *)
(*                                                                         *)
(* The filesystem is taken to be reliable (open/write of a file under an   *)
(* existing libs/ directory succeed) and nothing but the program touches   *)
(* libs/ between two runs.  The network is free: every GET ends with an    *)
(* exception or with a response of any status and any body.                *)
(***************************************************************************)
EXTENDS Integers, Sequences, FiniteSets, TLC

\* ---------------------------------------------------------------- bounds
MaxLen == 1        \* longest response body / pre-existing file, in bytes
MaxRuns == 2       \* number of successive invocations of download_libs

\* ------------------------------------------------------------- constants
\* The mapping of file names to URLs, in definition order.
LIBRARIES ==
  << [name |-> "react.js",     url |-> "https://unpkg.com/react@18/umd/react.development.js"],
     [name |-> "react-dom.js", url |-> "https://unpkg.com/react-dom@18/umd/react-dom.development.js"],
     [name |-> "babel.js",     url |-> "https://unpkg.com/@babel/standalone/babel.min.js"],
     [name |-> "tailwind.js",  url |-> "https://cdn.tailwindcss.com"] >>

N == Len(LIBRARIES)
Names == { LIBRARIES[i].name : i \in 1..N }
Urls == { LIBRARIES[i].url : i \in 1..N }

\* Byte strings (response.content, file contents); what the program does
\* with a body does not depend on the byte values, one value stands for all.
Bytes == {0}
Bodies == UNION { [1..k -> Bytes] : k \in 0..MaxLen }

\* HTTP status codes the server may answer with.
Statuses == {200, 404}

\* A path of libs/: missing, or a regular file with its bytes.
Absent == [exists |-> FALSE, content |-> <<>>]
File(content) == [exists |-> TRUE, content |-> content]
Paths == {Absent} \cup { File(c) : c \in Bodies }
NoOutcome == [kind |-> "none", status |-> 0, body |-> <<>>]

VARIABLES
  dirExists,   \* libs/ exists
  dirCreated,  \* how often the program has created libs/ (os.makedirs)
  files,       \* files[n]: the path libs/<n>: Absent, or a file and its bytes
  pc,          \* position of the process in download_libs
  idx,         \* index in LIBRARIES of the entry the for loop is at
  pending,     \* URLs of the GETs issued and not yet answered
  requests,    \* names of the entries a GET was issued for, this run, in order
  outcome,     \* outcome[n]: what the process saw for entry n in this run:
               \* kind "skipped", "error", or "response" with the status
               \* code read and, when it was read, response.content
  prevOutcome, \* outcome of the previous run ("none" everywhere in the first)
  writes,      \* writes[n]: how often the program has written libs/<n>
  run          \* number of the current invocation

vars == <<dirExists, dirCreated, files, pc, idx, pending, requests, outcome, prevOutcome, writes, run>>

\* ------------------------------------------------------------- helpers
\* Variant: the directory is created without looking.
DirMissingAlways(d) == TRUE

\* not os.path.exists("libs")
DirMissing(d) == ~d

\* os.makedirs("libs") raises FileExistsError when the directory exists
\* (exist_ok defaults to False).
MakeDirsRaises(d) == d

\* Variants: the existence test always fails / is inverted.
PathExistsNever(fs, n) == FALSE
PathExistsNegated(fs, n) == ~fs[n].exists

\* os.path.exists(filepath)
PathExists(fs, n) == fs[n].exists

\* Variant: the status code is not looked at.
IsOKAny(status) == TRUE

\* response.status_code == 200
IsOK(status) == status = 200

\* open(filepath, "wb") creates the file, or truncates it.
OpenWB(old) == File(<<>>)

\* Variant: the last byte of the body is lost.
WriteBytesShort(opened, content) ==
  File(opened.content \o SubSeq(content, 1, Len(content) - 1))

\* f.write(response.content) puts the bytes after those already written.
WriteBytes(opened, content) == File(opened.content \o content)

\* with open(filepath, "wb") as f: f.write(response.content)
SaveFile(old, content) == WriteBytes(OpenWB(old), content)

\* The for loop moves to the next item of LIBRARIES.items().
NextEntry(i) == i + 1

\* ---------------------------------------------------------------- Init
\* A first invocation on any filesystem: libs/ absent (then it holds no
\* file), or present with any subset of the files, of any content.
Init ==
  /\ dirExists \in BOOLEAN
  /\ files \in [Names -> Paths]
  /\ (~dirExists => \A n \in Names : files[n] = Absent)
  /\ dirCreated = 0
  /\ pc = "dir"
  /\ idx = 1
  /\ pending = {}
  /\ requests = <<>>
  /\ outcome = [n \in Names |-> NoOutcome]
  /\ prevOutcome = [n \in Names |-> NoOutcome]
  /\ writes = [n \in Names |-> 0]
  /\ run = 1

\* -------------------------------------------------------------- actions
\* Lines 15-19: create libs/ when it is missing, then enter the loop.
EnsureDir ==
  /\ pc = "dir"
  /\ IF DirMissing(dirExists)
       THEN IF MakeDirsRaises(dirExists)
              THEN /\ pc' = "crashed"
                   /\ UNCHANGED <<dirExists, dirCreated>>
              ELSE /\ dirExists' = TRUE
                   /\ dirCreated' = dirCreated + 1
                   /\ pc' = "loop"
       ELSE /\ pc' = "loop"
            /\ UNCHANGED <<dirExists, dirCreated>>
  /\ UNCHANGED <<files, idx, pending, requests, outcome, prevOutcome, writes, run>>

\* Lines 21-25: the file of the current entry exists: skip it.
Skip ==
  /\ pc = "loop"
  /\ idx <= N
  /\ PathExists(files, LIBRARIES[idx].name)
  /\ outcome' = [outcome EXCEPT ![LIBRARIES[idx].name] =
                   [kind |-> "skipped", status |-> 0, body |-> <<>>]]
  /\ idx' = NextEntry(idx)
  /\ UNCHANGED <<dirExists, dirCreated, files, pc, pending, requests, prevOutcome, writes, run>>

\* Variant: the GET is fired and the loop moves on without waiting for it.
IssueGetNoWait ==
  /\ pc = "loop"
  /\ idx <= N
  /\ ~PathExists(files, LIBRARIES[idx].name)
  /\ pending' = pending \cup {LIBRARIES[idx].url}
  /\ requests' = Append(requests, LIBRARIES[idx].name)
  /\ idx' = NextEntry(idx)
  /\ UNCHANGED <<dirExists, dirCreated, files, pc, outcome, prevOutcome, writes, run>>

\* Lines 21-29: the file is missing: issue the GET and block on it.
IssueGet ==
  /\ pc = "loop"
  /\ idx <= N
  /\ ~PathExists(files, LIBRARIES[idx].name)
  /\ pending' = pending \cup {LIBRARIES[idx].url}
  /\ requests' = Append(requests, LIBRARIES[idx].name)
  /\ pc' = "wait"
  /\ UNCHANGED <<dirExists, dirCreated, files, idx, outcome, prevOutcome, writes, run>>

\* Lines 29-35: the GET returns a response; a 200 is saved, any other
\* status is only reported.
Respond ==
  /\ pc = "wait"
  /\ \E status \in Statuses, content \in Bodies :
       LET n == LIBRARIES[idx].name IN
       /\ outcome' = [outcome EXCEPT ![n] =
                        [kind |-> "response", status |-> status,
                         body |-> IF IsOK(status) THEN content ELSE <<>>]]
       /\ IF IsOK(status)
            THEN /\ files' = [files EXCEPT ![n] = SaveFile(files[n], content)]
                 /\ writes' = [writes EXCEPT ![n] = @ + 1]
            ELSE UNCHANGED <<files, writes>>
  /\ pending' = pending \ {LIBRARIES[idx].url}
  /\ idx' = NextEntry(idx)
  /\ pc' = "loop"
  /\ UNCHANGED <<dirExists, dirCreated, requests, prevOutcome, run>>

\* Variant: no handler, the exception leaves download_libs.
RaiseUncaught ==
  /\ pc = "wait"
  /\ outcome' = [outcome EXCEPT ![LIBRARIES[idx].name] =
                   [kind |-> "error", status |-> 0, body |-> <<>>]]
  /\ pending' = pending \ {LIBRARIES[idx].url}
  /\ pc' = "crashed"
  /\ UNCHANGED <<dirExists, dirCreated, files, idx, requests, prevOutcome, writes, run>>

\* Variant: the try statement is around the loop, not inside it.
RaiseAbortsLoop ==
  /\ pc = "wait"
  /\ outcome' = [outcome EXCEPT ![LIBRARIES[idx].name] =
                   [kind |-> "error", status |-> 0, body |-> <<>>]]
  /\ pending' = pending \ {LIBRARIES[idx].url}
  /\ idx' = N + 1
  /\ pc' = "loop"
  /\ UNCHANGED <<dirExists, dirCreated, files, requests, prevOutcome, writes, run>>

\* Lines 29, 36-37: the GET raises; the handler reports it and the loop
\* goes on.
RaiseCaught ==
  /\ pc = "wait"
  /\ outcome' = [outcome EXCEPT ![LIBRARIES[idx].name] =
                   [kind |-> "error", status |-> 0, body |-> <<>>]]
  /\ pending' = pending \ {LIBRARIES[idx].url}
  /\ idx' = NextEntry(idx)
  /\ pc' = "loop"
  /\ UNCHANGED <<dirExists, dirCreated, files, requests, prevOutcome, writes, run>>

\* Line 39: the loop is exhausted; print the closing message and return.
PrintClosing ==
  /\ pc = "loop"
  /\ idx > N
  /\ pc' = "done"
  /\ UNCHANGED <<dirExists, dirCreated, files, idx, pending, requests, outcome, prevOutcome, writes, run>>

\* Lines 42-43: the script is invoked again, on the filesystem the
\* previous run left.
StartRun ==
  /\ pc = "done"
  /\ run < MaxRuns
  /\ run' = run + 1
  /\ pc' = "dir"
  /\ idx' = 1
  /\ requests' = <<>>
  /\ prevOutcome' = outcome
  /\ outcome' = [n \in Names |-> NoOutcome]
  /\ UNCHANGED <<dirExists, dirCreated, files, pending, writes>>

Step == EnsureDir \/ Skip \/ IssueGet \/ Respond \/ RaiseCaught \/ PrintClosing

Next == Step \/ StartRun

Spec == Init /\ [][Next]_vars

\* The process is never starved and every GET ends (with a response or an
\* exception); nobody is obliged to run the script again.
FairSpec == Spec /\ WF_vars(Step)

\* ------------------------------------------------------------ properties
Index(n) == CHOOSE i \in 1..N : LIBRARIES[i].name = n
Requested == { requests[k] : k \in 1..Len(requests) }
Saved(o) == o.kind = "response" /\ o.status = 200
BadStatus(o) == o.kind = "response" /\ o.status # 200
Raised(o) == o.kind = "error"
Processed(o) == o.kind # "none"

\* C1: when the entry the loop is at has its file libs/<name> on disk, the
\* step taken for it issues no GET (nothing is added to the requests or to
\* the pending GETs) and moves to the next entry; and no GET is ever added
\* for a name whose file exists.
C1_SkipIfPresent ==
  [][ /\ (pc = "loop" /\ idx <= N /\ files[LIBRARIES[idx].name].exists)
         => (requests' = requests /\ pending' = pending /\ idx' = idx + 1)
      /\ (Len(requests') > Len(requests))
         => ~files[requests'[Len(requests')]].exists ]_vars

C1_Witness ==
  /\ pc = "done"
  /\ \E n \in Names : outcome[n].kind = "skipped" /\ files[n].exists /\ n \notin Requested
  /\ requests # <<>>

\* C2: an entry whose file was missing and whose GET returned 200 has, from
\* then on and at the end of the run, a file whose bytes are exactly the
\* body of the response.
C2_SavedBytesEqualBody ==
  \A n \in Names :
    Saved(outcome[n]) => files[n] = [exists |-> TRUE, content |-> outcome[n].body]

C2_Witness ==
  /\ pc = "done"
  /\ \E n \in Names : Saved(outcome[n]) /\ Len(outcome[n].body) = MaxLen /\ MaxLen > 0
  /\ \E n \in Names : Saved(outcome[n]) /\ outcome[n].body = <<>>

\* C3: an entry whose GET returned a status other than 200 gets no file in
\* this run, no exception leaves download_libs, and the run ends only after
\* every entry of the mapping has been processed.
C3_BadStatusNoFile ==
  \A n \in Names :
    BadStatus(outcome[n]) =>
      /\ ~files[n].exists
      /\ pc # "crashed"
      /\ (pc = "done" => \A m \in Names : Processed(outcome[m]))
      /\ \A i \in 1..N : i < idx => Processed(outcome[LIBRARIES[i].name])

C3_Witness ==
  /\ pc = "done"
  /\ BadStatus(outcome[LIBRARIES[1].name])
  /\ Saved(outcome[LIBRARIES[2].name])
  /\ ~files[LIBRARIES[1].name].exists

\* C4: an entry whose GET raised gets no file in this run, the exception is
\* handled inside the loop (the process does not crash) and all the entries
\* after it are processed before the run ends.
C4_ExceptionCaught ==
  \A n \in Names :
    Raised(outcome[n]) =>
      /\ ~files[n].exists
      /\ pc \in {"loop", "wait", "done"}
      /\ idx > Index(n)
      /\ (pc = "done" => \A i \in 1..N : i > Index(n) => Processed(outcome[LIBRARIES[i].name]))

C4_Witness ==
  /\ pc = "done"
  /\ Raised(outcome[LIBRARIES[1].name])
  /\ Saved(outcome[LIBRARIES[2].name])
  /\ outcome[LIBRARIES[3].name].kind = "skipped"
  /\ Raised(outcome[LIBRARIES[4].name])

\* C5 as stated: a run that follows another run issues no GET at all,
\* whatever happened to the entries in the first run.
C5_SecondRunNoGet ==
  run >= 2 => requests = <<>>

\* C5 amended: a run that follows another run issues no GET for the entries
\* the previous run skipped or saved; it issues a GET exactly for the
\* entries whose GET failed in the previous run (other status, exception).
C5_SecondRunOnlyFailed ==
  run >= 2 =>
    /\ \A n \in Requested : BadStatus(prevOutcome[n]) \/ Raised(prevOutcome[n])
    /\ pc = "done" =>
         \A n \in Names : (BadStatus(prevOutcome[n]) \/ Raised(prevOutcome[n])) => n \in Requested

C5_Witness ==
  /\ run >= 2
  /\ pc = "done"
  /\ \E n \in Names : Saved(prevOutcome[n]) /\ n \notin Requested
  /\ \E n \in Names : prevOutcome[n].kind = "skipped" /\ n \notin Requested
  /\ \E n \in Names : Raised(prevOutcome[n]) /\ n \in Requested
  /\ \E n \in Names : BadStatus(prevOutcome[n]) /\ n \in Requested

C7_DoneFilesExist ==
  pc = "done" =>
    \A n \in Names :
      (outcome[n].kind = "skipped" \/ Saved(outcome[n])) => (dirExists /\ files[n].exists)

C7_Witness ==
  /\ pc = "done"
  /\ \E n \in Names : outcome[n].kind = "skipped"
  /\ \E n \in Names : Saved(outcome[n])
  /\ \E n \in Names : Raised(outcome[n]) /\ ~files[n].exists

\* C8: no step of any run changes or removes a file that exists, and the
\* program writes a file only when it is missing, so at most once.
C8_FilesNeverRewritten ==
  [][ \A n \in Names :
        /\ files[n].exists => (files'[n] = files[n] /\ writes'[n] = writes[n])
        /\ writes'[n] <= 1 ]_vars

C8_Witness ==
  /\ run >= 2
  /\ pc = "done"
  /\ \E n \in Names : writes[n] = 1 /\ Saved(prevOutcome[n]) /\ outcome[n].kind = "skipped"
  /\ \E n \in Names : writes[n] = 1 /\ Saved(outcome[n])

\* C9: the directory step leaves libs/ existing and goes on to the loop
\* without an error; when libs/ already exists it changes nothing on disk,
\* so the directory is created at most once however often the step runs.
C9_DirStepIdempotent ==
  [][ pc = "dir" =>
        /\ pc' = "loop"
        /\ dirExists'
        /\ files' = files
        /\ dirCreated' = (IF dirExists THEN dirCreated ELSE dirCreated + 1)
        /\ dirCreated' <= 1 ]_vars

C9_Witness ==
  /\ run >= 2
  /\ pc = "loop"
  /\ idx = 1
  /\ dirCreated = 1
  /\ dirExists

\* C10: the entries are taken one at a time in the order of the mapping: an
\* entry is started (checked, requested) only when all the entries before
\* it are finished, at most one GET is pending, it is the GET of the entry
\* the loop is at, and no entry is requested twice in a run.
C10_Sequential ==
  /\ Cardinality(pending) <= 1
  /\ (pending # {} <=> pc = "wait")
  /\ pc = "wait" =>
       /\ pending = {LIBRARIES[idx].url}
       /\ requests[Len(requests)] = LIBRARIES[idx].name
       /\ ~Processed(outcome[LIBRARIES[idx].name])
  /\ \A i, j \in 1..Len(requests) : i < j => Index(requests[i]) < Index(requests[j])
  /\ \A i \in 1..N :
       (Processed(outcome[LIBRARIES[i].name]) \/ LIBRARIES[i].name \in Requested)
         => \A j \in 1..(i - 1) : Processed(outcome[LIBRARIES[j].name])

C10_Witness ==
  /\ pc = "wait"
  /\ idx = N
  /\ Len(requests) = 3
  /\ \E n \in Names : outcome[n].kind = "skipped"

====
